---- MODULE Spec2Model ----
(***************************************************************************)
(* Model of src/main.py: a Dash application that downloads daily closing   *)
(* prices once at start-up, prepares them (forward fill, drop empty        *)
(* columns, sort by date) and re-bases them to the start of the range the  *)
(* user selects on a range slider.                                         *)
(*                                                                         *)
(* Floating point cells are modelled as exact rationals plus the IEEE      *)
(* special values NaN, +inf and -inf.  A DataFrame is a record             *)
(*   [index : Seq(date), columns : Seq(name), cell : [name -> Seq(float)]] *)
(* and dates are day numbers, day 1 being 2021-09-27 (the download start). *)
(***************************************************************************)
EXTENDS Integers, Sequences, FiniteSets

\* ------------------------------------------------------------------ bounds
\* The largest number of rows (dates) the provider returns in the model.
MaxDates == 2

\* ------------------------------------------------------- floating point
NaN == [k |-> "nan", n |-> 0, d |-> 1]
PosInf == [k |-> "inf", n |-> 1, d |-> 1]
NegInf == [k |-> "inf", n |-> -1, d |-> 1]

Abs(x) == IF x < 0 THEN -x ELSE x

RECURSIVE GCD(_, _)
GCD(a, b) == IF b = 0 THEN a ELSE GCD(b, a % b)

\* The rational n/d in lowest terms with a positive denominator (d # 0).
Num(n, d) ==
    LET g == GCD(Abs(n), Abs(d))
        s == IF d < 0 THEN -1 ELSE 1
    IN  [k |-> "num", n |-> s * (n \div g), d |-> s * (d \div g)]

IsNaN(x) == x.k = "nan"
IsInf(x) == x.k = "inf"
IsNum(x) == x.k = "num"
Sign(x) == IF x.n > 0 THEN 1 ELSE IF x.n < 0 THEN -1 ELSE 0
Inf(s) == IF s < 0 THEN NegInf ELSE PosInf

\* x / y as IEEE 754 divides (pandas divides float columns without raising).
FDiv(x, y) ==
    IF IsNaN(x) \/ IsNaN(y) THEN NaN
    ELSE IF IsInf(x) THEN (IF IsInf(y) THEN NaN
                           ELSE Inf(x.n * (IF Sign(y) < 0 THEN -1 ELSE 1)))
    ELSE IF IsInf(y) THEN Num(0, 1)
    ELSE IF y.n = 0 THEN (IF x.n = 0 THEN NaN ELSE Inf(Sign(x)))
    ELSE Num(x.n * y.d, x.d * y.n)

\* x - y
FSub(x, y) ==
    IF IsNaN(x) \/ IsNaN(y) THEN NaN
    ELSE IF IsInf(x) THEN (IF IsInf(y) /\ x.n = y.n THEN NaN ELSE x)
    ELSE IF IsInf(y) THEN Inf(-y.n)
    ELSE Num(x.n * y.d - y.n * x.d, x.d * y.d)

\* x * y
FMul(x, y) ==
    IF IsNaN(x) \/ IsNaN(y) THEN NaN
    ELSE IF IsInf(x) \/ IsInf(y)
         THEN (IF Sign(x) = 0 \/ Sign(y) = 0 THEN NaN ELSE Inf(Sign(x) * Sign(y)))
    ELSE Num(x.n * y.n, x.d * y.d)

\* ------------------------------------------------------------- tickers
\* Two of the seven instruments of the source's table.
Symbols == <<"BTC-USD", "GC=F">>

tickers == [name \in {"Gold", "Bitcoin"} |->
              IF name = "Gold" THEN "GC=F" ELSE "BTC-USD"]

\* dict(zip(tickers.values(), tickers.keys()))
symbol_to_name == [s \in {tickers[n] : n \in DOMAIN tickers} |->
                     CHOOSE n \in DOMAIN tickers : tickers[n] = s]

Range(s) == {s[i] : i \in 1..Len(s)}

\* ----------------------------------------------------------- DataFrame
EmptyFrame == [index |-> <<>>, columns |-> <<>>, cell |-> <<>>]

\* DataFrame.rename(columns=mapping): a label the mapping lacks is kept.
Rename(df, mapping) ==
    LET new(c) == IF c \in DOMAIN mapping THEN mapping[c] ELSE c
    IN  [index |-> df.index,
         columns |-> [i \in 1..Len(df.columns) |-> new(df.columns[i])],
         cell |-> [c \in {new(x) : x \in Range(df.columns)} |->
                     df.cell[CHOOSE x \in Range(df.columns) : new(x) = c]]]

\* Series.ffill(): along the rows as they are stored, a missing cell takes
\* the value of the row before it (itself already filled).
RECURSIVE FFillCol(_, _)
FFillCol(col, i) ==
    IF i = 0 THEN <<>>
    ELSE LET prev == FFillCol(col, i - 1)
         IN  Append(prev, IF IsNaN(col[i]) /\ i > 1 THEN prev[i - 1] ELSE col[i])

FFill(df) ==
    [df EXCEPT !.cell = [c \in DOMAIN df.cell |-> FFillCol(df.cell[c], Len(df.index))]]

\* dropna(axis=1, how="any") in place of how="all"
KeepColumnAny(df, c) == \A i \in 1..Len(df.index) : ~IsNaN(df.cell[c][i])

\* Whether dropna(axis=1, how="all") keeps column c.
KeepColumn(df, c) == \E i \in 1..Len(df.index) : ~IsNaN(df.cell[c][i])

RECURSIVE FilterSeq(_, _, _)
FilterSeq(s, i, keep) ==
    IF i = 0 THEN <<>>
    ELSE LET rest == FilterSeq(s, i - 1, keep)
         IN  IF s[i] \in keep THEN Append(rest, s[i]) ELSE rest

DropNaColumns(df) ==
    LET keep == {c \in Range(df.columns) : KeepColumn(df, c)}
    IN  [index |-> df.index,
         columns |-> FilterSeq(df.columns, Len(df.columns), keep),
         cell |-> [c \in keep |-> df.cell[c]]]

\* DataFrame.sort_index(): rows by ascending date (stable).
SortPerm(index) ==
    LET n == Len(index)
        before(j, i) == (index[j] < index[i]) \/ (index[j] = index[i] /\ j < i)
        rank(i) == Cardinality({j \in 1..n : before(j, i)}) + 1
    IN  [k \in 1..n |-> CHOOSE i \in 1..n : rank(i) = k]

SortIndex(df) ==
    LET p == SortPerm(df.index)
    IN  [index |-> [k \in 1..Len(p) |-> df.index[p[k]]],
         columns |-> df.columns,
         cell |-> [c \in DOMAIN df.cell |-> [k \in 1..Len(p) |-> df.cell[c][p[k]]]]]

\* data.ffill().dropna(axis=1, how="all").sort_index() after the rename
Prepare(close) == SortIndex(DropNaColumns(FFill(Rename(close, symbol_to_name))))

\* --------------------------------------------------------- calendar dates
\* Days in the months from September 2021 on, the month of day 1.
MonthLengths == <<30, 31, 30, 31>>

\* Timestamp.strftime("%Y-%m-%d") / str(Timestamp.date()) of day number day:
\* <<year, month, day of month>>, day 1 being 2021-09-27.
RECURSIVE YMD(_, _)
YMD(m, dom) ==
    IF m <= Len(MonthLengths) /\ dom > MonthLengths[m]
    THEN YMD(m + 1, dom - MonthLengths[m])
    ELSE <<2021, 8 + m, dom>>

strftime(day) == YMD(1, 26 + day)

\* ---------------------------------------------------------------- state
VARIABLES
    pc,         \* position of the script: start, downloaded, prepared, ready,
                \* serving (event loop running), crashed (start-up raised)
    raw,        \* what yf.download returned: [Close |-> DataFrame]
    data,       \* the prepared price table (module global)
    date_list,  \* data.index (module global)
    slider,     \* the RangeSlider: [min, max, value]
    called,     \* the selected_range of the latest update_graph call, <<>> if none
    figure,     \* the 'performance-graph' figure output
    label,      \* the 'selected-range-display' children output
    cb_error,   \* the latest callback raised (its outputs were not updated)
    earlier     \* history: one earlier successful render, or NoRender

vars == <<pc, raw, data, date_list, slider, called, figure, label, cb_error, earlier>>

NoFigure == [data |-> <<>>, title |-> <<>>]
NoRender == [range |-> <<>>, figure |-> NoFigure, label |-> <<>>]

\* -------------------------------------------------------- update_graph
\* Python's seq[i]: a negative index counts from the end; outside, IndexError.
PyIndexOK(seq, i) == -Len(seq) <= i /\ i < Len(seq)
PyGet(seq, i) == IF i >= 0 THEN seq[i + 1] ELSE seq[Len(seq) + i + 1]

RECURSIVE PositionsBetween(_, _, _, _)
PositionsBetween(index, i, lo, hi) ==
    IF i = 0 THEN <<>>
    ELSE LET rest == PositionsBetween(index, i - 1, lo, hi)
         IN  IF lo <= index[i] /\ index[i] <= hi THEN Append(rest, i) ELSE rest

\* df.loc[lo:hi] taken as a half-open slice, the end label left out
LocSliceHalfOpen(df, lo, hi) ==
    LET p == PositionsBetween(df.index, Len(df.index), lo, hi - 1)
    IN  [index |-> [k \in 1..Len(p) |-> df.index[p[k]]],
         columns |-> df.columns,
         cell |-> [c \in DOMAIN df.cell |-> [k \in 1..Len(p) |-> df.cell[c][p[k]]]]]

\* df.loc[lo:hi].copy(): a new frame of the rows whose label lies in [lo, hi],
\* both ends included.
LocSlice(df, lo, hi) ==
    LET p == PositionsBetween(df.index, Len(df.index), lo, hi)
    IN  [index |-> [k \in 1..Len(p) |-> df.index[p[k]]],
         columns |-> df.columns,
         cell |-> [c \in DOMAIN df.cell |-> [k \in 1..Len(p) |-> df.cell[c][p[k]]]]]

One == Num(1, 1)
Hundred == Num(100, 1)

\* data.iloc[0] in place of filtered.iloc[0]: the table's first row
BaselineOfTable(filtered) == [c \in DOMAIN filtered.cell |-> data.cell[c][1]]

\* filtered.iloc[0]: the first row of the slice, one value per column
Baseline(filtered) == [c \in DOMAIN filtered.cell |-> filtered.cell[c][1]]

\* (filtered / baseline) * 100, the "- 1" left out
PerformanceRatio(filtered) ==
    LET baseline == Baseline(filtered)
    IN  [filtered EXCEPT !.cell =
            [c \in DOMAIN filtered.cell |->
               [i \in 1..Len(filtered.index) |->
                  FMul(FDiv(filtered.cell[c][i], baseline[c]), Hundred)]]]

\* (filtered / baseline - 1) * 100
Performance(filtered) ==
    LET baseline == Baseline(filtered)
    IN  [filtered EXCEPT !.cell =
            [c \in DOMAIN filtered.cell |->
               [i \in 1..Len(filtered.index) |->
                  FMul(FSub(FDiv(filtered.cell[c][i], baseline[c]), One), Hundred)]]]

\* performance.reset_index().melt(id_vars='Date', ...): for each column in
\* order, one row per date.
RECURSIVE Melt(_, _)
Melt(df, k) ==
    IF k = 0 THEN <<>>
    ELSE LET c == df.columns[k]
         IN  Melt(df, k - 1) \o
             [i \in 1..Len(df.index) |->
                [Date |-> df.index[i], Asset |-> c, Perf |-> df.cell[c][i]]]

\* update_graph keeping the start of the range from the call before it
update_graph_sticky(selected_range) ==
    LET start_idx == IF called # <<>> THEN called[1] ELSE selected_range[1]
        end_idx == selected_range[2]
    IN  IF ~(PyIndexOK(date_list, start_idx) /\ PyIndexOK(date_list, end_idx))
        THEN [ok |-> FALSE, figure |-> NoFigure, label |-> <<>>]
        ELSE LET start_date == PyGet(date_list, start_idx)
                 end_date == PyGet(date_list, end_idx)
                 filtered == LocSlice(data, start_date, end_date)
             IN  IF Len(filtered.index) = 0
                 THEN [ok |-> FALSE, figure |-> NoFigure, label |-> <<>>]
                 ELSE LET performance == Performance(filtered)
                          df == Melt(performance, Len(performance.columns))
                      IN  [ok |-> TRUE,
                           figure |-> [data |-> df, title |-> strftime(start_date)],
                           label |-> <<strftime(start_date), strftime(end_date)>>]

\* The callback's body: [ok |-> FALSE] when it raises.
update_graph(selected_range) ==
    LET start_idx == selected_range[1]
        end_idx == selected_range[2]
    IN  IF ~(PyIndexOK(date_list, start_idx) /\ PyIndexOK(date_list, end_idx))
        THEN [ok |-> FALSE, figure |-> NoFigure, label |-> <<>>]
        ELSE LET start_date == PyGet(date_list, start_idx)
                 end_date == PyGet(date_list, end_idx)
                 filtered == LocSlice(data, start_date, end_date)
             IN  IF Len(filtered.index) = 0
                 THEN [ok |-> FALSE, figure |-> NoFigure, label |-> <<>>]
                 ELSE LET performance == Performance(filtered)
                          df == Melt(performance, Len(performance.columns))
                      IN  [ok |-> TRUE,
                           figure |-> [data |-> df, title |-> strftime(start_date)],
                           label |-> <<strftime(start_date), strftime(end_date)>>]

\* -------------------------------------------------------------- provider
\* Closing prices the provider may report for a symbol (NaN: no quote).
Prices(sym) ==
    IF sym = "GC=F" THEN {NaN, Num(90, 1), Num(100, 1), Num(110, 1)}
    ELSE {NaN, Num(0, 1), Num(1, 1)}

Permutations(n) ==
    {p \in [1..n -> 1..n] : \A i, j \in 1..n : p[i] = p[j] => i = j}

\* The Close tables yf.download may return with n rows: distinct dates in any
\* row order, one column per symbol.
RawFrames(n) ==
    {[index |-> idx, columns |-> Symbols,
      cell |-> [s \in Range(Symbols) |-> IF s = "GC=F" THEN gold ELSE btc]] :
        idx \in Permutations(n),
        gold \in [1..n -> Prices("GC=F")],
        btc \in [1..n -> Prices("BTC-USD")]}

\* ---------------------------------------------------------------- actions
Init ==
    /\ pc = "start"
    /\ raw = [Close |-> EmptyFrame]
    /\ data = EmptyFrame
    /\ date_list = <<>>
    /\ slider = [min |-> 0, max |-> 0, value |-> <<0, 0>>]
    /\ called = <<>>
    /\ figure = NoFigure
    /\ label = <<>>
    /\ cb_error = FALSE
    /\ earlier = NoRender

\* raw = yf.download(...): the call raises, or returns a table (possibly empty)
DownloadRaises ==
    /\ pc = "start"
    /\ pc' = "crashed"
    /\ UNCHANGED <<raw, data, date_list, slider, called, figure, label, cb_error>>

Download ==
    /\ pc = "start"
    /\ \E n \in 0..MaxDates : \E f \in RawFrames(n) : raw' = [Close |-> f]
    /\ pc' = "downloaded"
    /\ UNCHANGED <<data, date_list, slider, called, figure, label, cb_error>>

\* lines 25-38: keep Close, rename, fill, drop, sort; date_list = data.index
PrepareData ==
    /\ pc = "downloaded"
    /\ data' = Prepare(raw.Close)
    /\ date_list' = data'.index
    /\ pc' = "prepared"
    /\ UNCHANGED <<raw, slider, called, figure, label, cb_error>>

\* lines 43-95: the layout with its RangeSlider over [0, len(date_list) - 1]
BuildLayout ==
    /\ pc = "prepared"
    /\ slider' = [min |-> 0, max |-> Len(date_list) - 1,
                  value |-> <<0, Len(date_list) - 1>>]
    /\ pc' = "ready"
    /\ UNCHANGED <<raw, data, date_list, called, figure, label, cb_error>>

\* The callback slicing the global table in place (data = data.loc[...])
CallbackInPlace(r) ==
    LET res == update_graph(r)
    IN  /\ called' = r
        /\ cb_error' = ~res.ok
        /\ figure' = IF res.ok THEN res.figure ELSE figure
        /\ label' = IF res.ok THEN res.label ELSE label
        /\ data' = IF res.ok
                   THEN LocSlice(data, PyGet(date_list, r[1]), PyGet(date_list, r[2]))
                   ELSE data
        /\ UNCHANGED <<raw, date_list>>

\* One dispatch of the callback with selected_range = r.
Callback(r) ==
    LET res == update_graph(r)
    IN  /\ called' = r
        /\ cb_error' = ~res.ok
        /\ figure' = IF res.ok THEN res.figure ELSE figure
        /\ label' = IF res.ok THEN res.label ELSE label
        /\ UNCHANGED <<raw, data, date_list>>

\* app.run(): the page loads and Dash fires the callback with the slider's
\* initial value.
PageLoad ==
    /\ pc = "ready"
    /\ pc' = "serving"
    /\ Callback(slider.value)
    /\ UNCHANGED slider

\* The user drags a handle: the value becomes another pair within [min, max]
\* that does not cross (allowCross=False), and the callback runs with it.
SliderChange ==
    /\ pc = "serving"
    /\ \E s, e \in slider.min..slider.max :
          /\ s <= e
          /\ <<s, e>> # slider.value
          /\ slider' = [slider EXCEPT !.value = <<s, e>>]
          /\ Callback(<<s, e>>)
    /\ UNCHANGED pc

Next ==
    \/ DownloadRaises /\ UNCHANGED earlier
    \/ Download /\ UNCHANGED earlier
    \/ PrepareData /\ UNCHANGED earlier
    \/ BuildLayout /\ UNCHANGED earlier
    \/ PageLoad /\ UNCHANGED earlier
    \/ SliderChange /\ UNCHANGED earlier

Spec == Init /\ [][Next]_vars

\* ------------------------------------------------- history of renders
\* The same program with the provider returning its rows in date order, and
\* with `earlier` remembering any one earlier successful render.
IsSorted(index) == \A i \in 1..Len(index) : index[i] = i

DownloadSorted ==
    /\ pc = "start"
    /\ \E n \in 0..MaxDates : \E f \in RawFrames(n) :
          /\ IsSorted(f.index)
          /\ raw' = [Close |-> f]
    /\ pc' = "downloaded"
    /\ UNCHANGED <<data, date_list, slider, called, figure, label, cb_error>>

Remember ==
    \/ earlier' = earlier
    \/ /\ called # <<>>
       /\ ~cb_error
       /\ earlier' = [range |-> called, figure |-> figure, label |-> label]

NextHistory ==
    \/ DownloadRaises /\ UNCHANGED earlier
    \/ DownloadSorted /\ UNCHANGED earlier
    \/ PrepareData /\ UNCHANGED earlier
    \/ BuildLayout /\ UNCHANGED earlier
    \/ PageLoad /\ UNCHANGED earlier
    \/ SliderChange /\ Remember

SpecHistory == Init /\ [][NextHistory]_vars

\* ================================================================ claims
\* A render has been delivered: the latest callback returned its outputs.
Rendered == pc = "serving" /\ called # <<>> /\ ~cb_error

\* 0 <= start_index <= end_index <= last_index
ValidRange(r) == 0 <= r[1] /\ r[1] <= r[2] /\ r[2] <= Len(date_list) - 1

Columns == Range(data.columns)

\* The price table's cell at 0-based row i of column c.
Price(i, c) == data.cell[c][i + 1]

\* The rows of the long table handed to the chart for one asset, in order.
RowsOf(c) == SelectSeq(figure.data, LAMBDA row : row.Asset = c)

\* The performance values charted for asset c at 0-based row i of the table.
PerfAt(i, c) ==
    {figure.data[k].Perf : k \in {j \in 1..Len(figure.data) :
        figure.data[j].Asset = c /\ figure.data[j].Date = date_list[i + 1]}}

Usable(x) == IsNum(x) /\ x.n # 0

\* x = (v / b - 1) * 100 for a usable baseline b, by cross-multiplication
IsRebased(x, v, b) ==
    IF IsNaN(v) THEN IsNaN(x)
    ELSE /\ IsNum(x)
         /\ x.n * (v.d * b.n) = x.d * 100 * (v.n * b.d - b.n * v.d)

\* C1 (as stated): after every render of a valid range, every surviving
\* column's performance at start_index is exactly 0.0.
C1_BaselineZeroEveryColumn ==
    (Rendered /\ ValidRange(called)) =>
        \A c \in Columns : PerfAt(called[1], c) = {Num(0, 1)}

\* C1 (amended): after every render of a valid range, every surviving column
\* whose price at start_index is present and non-zero has performance
\* exactly 0.0 at start_index.
C1_BaselineZero ==
    (Rendered /\ ValidRange(called)) =>
        \A c \in Columns :
            Usable(Price(called[1], c)) => PerfAt(called[1], c) = {Num(0, 1)}

C1_Witness ==
    /\ Rendered
    /\ called = <<1, 1>>
    /\ "Gold" \in Columns
    /\ Price(0, "Gold") = Num(100, 1)
    /\ Price(1, "Gold") = Num(110, 1)
    /\ PerfAt(1, "Gold") = {Num(0, 1)}

\* C2: after every render of a valid range, a column whose price at
\* start_index is zero or missing is charted as missing in every row (never
\* infinite, never a number), and every other column is re-based normally.
C2_ZeroOrMissingBaseline ==
    (Rendered /\ ValidRange(called)) =>
        \A c \in Columns : \A i \in called[1]..called[2] :
            IF Usable(Price(called[1], c))
            THEN \A x \in PerfAt(i, c) : IsRebased(x, Price(i, c), Price(called[1], c))
            ELSE PerfAt(i, c) = {NaN}

\* C3: after every render of a valid range, for every row r of the range and
\* every column c with a present non-zero price at start_index, the charted
\* performance is (price[r][c] / price[start_index][c] - 1) * 100.
C3_RebasingFormula ==
    (Rendered /\ ValidRange(called)) =>
        \A c \in Columns : \A i \in called[1]..called[2] :
            Usable(Price(called[1], c)) =>
                /\ Cardinality(PerfAt(i, c)) = 1
                /\ \A x \in PerfAt(i, c) :
                      IsRebased(x, Price(i, c), Price(called[1], c))

\* Gold = [110, 90] re-based to its first row charts [0, -18.18...].
C3_Witness ==
    /\ Rendered
    /\ called = <<0, 1>>
    /\ "Gold" \in Columns
    /\ data.cell["Gold"] = <<Num(110, 1), Num(90, 1)>>
    /\ PerfAt(0, "Gold") = {Num(0, 1)}
    /\ PerfAt(1, "Gold") = {Num(-200, 11)}

\* The dates charted are exactly date_list[start_index..end_index].
DatesContained ==
    /\ {figure.data[k].Date : k \in 1..Len(figure.data)} =
          {date_list[i + 1] : i \in called[1]..called[2]}
    /\ \A c \in Columns :
          LET rows == RowsOf(c)
          IN  /\ Len(rows) = called[2] - called[1] + 1
              /\ \A k \in 1..Len(rows) : rows[k].Date = date_list[called[1] + k]
              /\ \A k \in 1..(Len(rows) - 1) : rows[k].Date < rows[k + 1].Date

\* C4 (as stated): after every render of a valid range, the dates of the long
\* table are exactly date_list[start_index..end_index], ascending.
C4_RangeContainmentAlways ==
    (Rendered /\ ValidRange(called)) => DatesContained

\* C4 (amended): the same, when at least one column survived preparation
\* (with no column the long table has no row at all).
C4_RangeContainment ==
    (Rendered /\ ValidRange(called) /\ Columns # {}) => DatesContained

C4_Witness ==
    /\ Rendered
    /\ Len(date_list) = 2
    /\ called = <<0, 1>>
    /\ Cardinality(Columns) = 2
    /\ Len(figure.data) = 4

\* Position of date d in the raw table's index.
RawPos(d) == CHOOSE i \in 1..Len(raw.Close.index) : raw.Close.index[i] = d
RawAt(sym, d) == raw.Close.cell[sym][RawPos(d)]
DataAt(c, d) == data.cell[c][CHOOSE i \in 1..Len(data.index) : data.index[i] = d]
RawDates == Range(raw.Close.index)
Observed(sym) == {d \in RawDates : ~IsNaN(RawAt(sym, d))}
Max(S) == CHOOSE x \in S : \A y \in S : y <= x

Prepared == pc \in {"prepared", "ready", "serving"}

\* C5: after preparation, every cell that was missing in the raw table at a
\* date after the column's first observed value holds the value of the
\* nearest earlier date at which the column was observed.
C5_ForwardFill ==
    Prepared =>
        \A c \in Columns : \A d \in RawDates :
            LET sym == tickers[c]
                before == {e \in Observed(sym) : e < d}
            IN  (IsNaN(RawAt(sym, d)) /\ before # {}) =>
                    DataAt(c, d) = RawAt(sym, Max(before))

\* C6: after preparation every remaining column has a non-missing value, and
\* every raw column with an observed value remains.
C6_NoEmptyColumn ==
    Prepared =>
        /\ \A c \in Columns : \E i \in 1..Len(data.index) : ~IsNaN(data.cell[c][i])
        /\ \A sym \in Range(Symbols) :
              Observed(sym) # {} => symbol_to_name[sym] \in Columns

\* One column dropped, one with a gap kept.
C6_Witness ==
    /\ pc = "prepared"
    /\ Observed("BTC-USD") = {}
    /\ RawDates = {1, 2}
    /\ Observed("GC=F") = {2}
    /\ data.columns = <<"Gold">>

\* C7: a render of the range of a remembered earlier render produces the
\* same figure and the same label, whatever was rendered in between.
C7_HistoryIndependent ==
    (Rendered /\ earlier # NoRender /\ earlier.range = called) =>
        /\ figure = earlier.figure
        /\ label = earlier.label

C7_Witness ==
    /\ Rendered
    /\ earlier # NoRender
    /\ earlier.range = called
    /\ called = <<1, 1>>
    /\ Columns # {}

\* C8: once prepared, no step changes data or date_list.
C8_TableReadOnly ==
    [][Prepared => (data' = data /\ date_list' = date_list)]_vars

C8_Witness ==
    /\ Rendered
    /\ called = <<1, 1>>
    /\ Len(data.index) = 2
    /\ data = Prepare(raw.Close)

\* C9: every range update_graph has been called with satisfies
\* 0 <= start_index <= end_index <= N - 1.
C9_SelectedRangeValid ==
    called # <<>> => ValidRange(called)

\* C10: when the provider call raised or returned no rows, the layout is
\* never built, the event loop never runs and update_graph is never called.
C10_FetchFailureFatal ==
    (pc # "start" /\ Len(raw.Close.index) = 0) =>
        (pc \notin {"ready", "serving"} /\ called = <<>>)

====
